---- MODULE Spec2Model ----
(***************************************************************************)
(* A model of convert_to_ios.py: the PNG chunk codec, the chunk stream     *)
(* parser, the positional inserter, the conversion orchestrator, the batch *)
(* driver and the command line entry point.                                *)
(*                                                                         *)
(* Byte strings are sequences of integers 0..255.  Text strings (paths,    *)
(* file names) are sequences of character codes, so that splitext,         *)
(* basename, join, lower() and sorted() are computed and not assumed.      *)
(***************************************************************************)
EXTENDS Integers, Sequences, FiniteSets, TLC

VARIABLES
    insertCall,     \* one call of insert_chunk_after: its arguments and return value
    extractCall,    \* one call of extract_chunks_from_png: the file's bytes and the outcome
    assembleCall,   \* the classification and base-PNG assembly of one decoded chunk list
    argv,           \* sys.argv[1:]
    pc,             \* where the script is: main, process_directory's loop, a conversion, exit
    exit_code,      \* the exit status of the interpreter, -1 while it runs
    files,          \* the file system: path -> bytes, for the regular files that exist
    dirs,           \* the directories that exist
    exiftool,       \* the exiftool found on the PATH: whether there is one, where it puts chunks
    batch_mode,     \* whether convert_android_to_ios has the attribute _batch_mode
    batch,          \* the locals of process_directory
    cpc,            \* the next step of the running convert_android_to_ios call
    conv            \* the locals of the running convert_android_to_ios call

pureVars == <<insertCall, extractCall, assembleCall>>
progVars == <<argv, pc, exit_code, files, dirs, exiftool, batch_mode, batch, cpc, conv>>
vars == <<insertCall, extractCall, assembleCall,
          argv, pc, exit_code, files, dirs, exiftool, batch_mode, batch, cpc, conv>>

-----------------------------------------------------------------------------
(* Bounds of the model                                                     *)

\* longest run of bytes that follows the IEND chunk of a generated buffer
MaxTrail == 13
\* most chunks before IEND in a generated buffer
MaxChunks == 2
\* most chunks in a decoded chunk list handed to the classification
MaxInputChunks == 3
\* exiftool puts a chunk after one of the first MaxPos chunks of the file
MaxPos == 4
\* most files in the directory of a batch run
MaxFiles == 3

-----------------------------------------------------------------------------
(* Bytes and Python's slices                                               *)

Min(a, b) == IF a < b THEN a ELSE b

\* Python's s[a:b] for 0 <= a <= b: lenient at the end of the sequence
Slice(s, a, b) == SubSeq(s, a + 1, Min(b, Len(s)))

\* Python's s[a:]
SliceFrom(s, a) == SubSeq(s, a + 1, Len(s))

\* struct.pack('>I', n)
PackU32(n) ==
    << (n \div 16777216) % 256, (n \div 65536) % 256, (n \div 256) % 256, n % 256 >>

\* struct.unpack('>I', b)[0]
UnpackU32(b) == b[1] * 16777216 + b[2] * 65536 + b[3] * 256 + b[4]

PNG_SIGNATURE == << 137, 80, 78, 71, 13, 10, 26, 10 >>

\* the four-byte chunk type tags, as their ASCII codes
IHDR == << 73, 72, 68, 82 >>
sRGB == << 115, 82, 71, 66 >>
IDAT == << 73, 68, 65, 84 >>
IEND == << 73, 69, 78, 68 >>
eXIf == << 101, 88, 73, 102 >>
pHYs == << 112, 72, 89, 115 >>
sBIT == << 115, 66, 73, 84 >>
tEXt == << 116, 69, 88, 116 >>
tIME == << 116, 73, 77, 69 >>

-----------------------------------------------------------------------------
(* zlib.crc32: the reflected CRC-32 with polynomial 0xEDB88320, computed   *)
(* byte by byte through the 256-entry table, as zlib does.  A 32-bit value *)
(* is kept as its four big-endian bytes, which is what struct.pack('>I')   *)
(* writes of it.                                                           *)

RECURSIVE BitXor(_, _)
BitXor(a, b) ==
    IF a = 0 THEN b
    ELSE IF b = 0 THEN a
    ELSE ((a + b) % 2) + 2 * BitXor(a \div 2, b \div 2)

Xor4(a, b) == << BitXor(a[1], b[1]), BitXor(a[2], b[2]), BitXor(a[3], b[3]), BitXor(a[4], b[4]) >>

Shr1(c) ==
    << c[1] \div 2,
       (c[1] % 2) * 128 + c[2] \div 2,
       (c[2] % 2) * 128 + c[3] \div 2,
       (c[3] % 2) * 128 + c[4] \div 2 >>

CrcPoly == << 237, 184, 131, 32 >>

RECURSIVE CrcRounds(_, _)
CrcRounds(c, k) ==
    IF k = 0 THEN c
    ELSE CrcRounds(IF c[4] % 2 = 1 THEN Xor4(CrcPoly, Shr1(c)) ELSE Shr1(c), k - 1)

CrcTable == [n \in 0..255 |-> CrcRounds(<< 0, 0, 0, n >>, 8)]

CrcUpdate(c, byte) ==
    LET t == CrcTable[BitXor(c[4], byte)]
    IN  << t[1], BitXor(t[2], c[1]), BitXor(t[3], c[2]), BitXor(t[4], c[3]) >>

RECURSIVE CrcFold(_, _, _)
CrcFold(c, bytes, k) ==
    IF k > Len(bytes) THEN c ELSE CrcFold(CrcUpdate(c, bytes[k]), bytes, k + 1)

\* zlib.crc32(bytes) & 0xffffffff, big-endian
crc32(bytes) == Xor4(CrcFold(<< 255, 255, 255, 255 >>, bytes, 1), << 255, 255, 255, 255 >>)

-----------------------------------------------------------------------------
(* The chunk codec and the chunk stream parser                             *)

\* create_png_chunk(chunk_type, data)
create_png_chunk(chunk_type, data) ==
    PackU32(Len(data)) \o chunk_type \o data \o crc32(chunk_type \o data)

Chunk(t, d) == [type |-> t, data |-> d]

\* the while loop of extract_chunks_from_png, from offset i with the chunks
\* collected so far
RECURSIVE ExtractLoop(_, _, _)
ExtractLoop(data, i, chunks) ==
    IF ~(i < Len(data) - 12) THEN chunks
    ELSE LET size       == UnpackU32(Slice(data, i, i + 4))
             chunk_type == Slice(data, i + 4, i + 8)
             chunk_data == Slice(data, i + 8, i + 8 + size)
             appended   == Append(chunks, Chunk(chunk_type, chunk_data))
         IN  IF chunk_type = IEND THEN appended
             ELSE ExtractLoop(data, i + 12 + size, appended)

\* extract_chunks_from_png, on the bytes read from the file
extract_chunks_from_png(data) ==
    IF Slice(data, 0, 8) # PNG_SIGNATURE
    THEN [raised |-> "ValueError", chunks |-> << >>]
    ELSE [raised |-> "none", chunks |-> ExtractLoop(data, 8, << >>)]

-----------------------------------------------------------------------------
(* The positional inserter                                                 *)

\* the search loop of insert_chunk_after: the offset after the first chunk of
\* the anchor type, or -1 for Python's None
RECURSIVE FindInsertPos(_, _, _)
FindInsertPos(png_data, insert_after_chunk, i) ==
    IF ~(i < Len(png_data) - 12) THEN -1
    ELSE LET size       == UnpackU32(Slice(png_data, i, i + 4))
             chunk_type == Slice(png_data, i + 4, i + 8)
             chunk_end  == i + 12 + size
         IN  IF chunk_type = insert_after_chunk THEN chunk_end
             ELSE FindInsertPos(png_data, insert_after_chunk, chunk_end)

\* a fallback that forgets that the CRC is part of the IEND record
FallbackPosShort(png_data) == Len(png_data) - 8

\* the offset used when the anchor is not found
FallbackPos(png_data) == Len(png_data) - 12

\* Python's png_data[:p] + new_chunk + png_data[p:]
Splice(png_data, p, new_chunk) ==
    Slice(png_data, 0, p) \o new_chunk \o SliceFrom(png_data, p)

insert_chunk_after(png_data, insert_after_chunk, new_chunk_type, new_chunk_data) ==
    LET found      == FindInsertPos(png_data, insert_after_chunk, 8)
        insert_pos == IF found = -1 THEN FallbackPos(png_data) ELSE found
    IN  Splice(png_data, insert_pos, create_png_chunk(new_chunk_type, new_chunk_data))

-----------------------------------------------------------------------------
RECURSIVE EncodeFrom(_, _)
EncodeFrom(chunks, k) ==
    IF k > Len(chunks) THEN << >>
    ELSE create_png_chunk(chunks[k].type, chunks[k].data) \o EncodeFrom(chunks, k + 1)

\* the loops "for chunk_type, chunk_data in ...: png_data += create_png_chunk(...)":
\* the byte stream of a chunk sequence
EncodeAll(chunks) == EncodeFrom(chunks, 1)

-----------------------------------------------------------------------------
(* convert_android_to_ios: classification of the decoded chunks and the    *)
(* assembly of the base PNG.  Python's None is the empty sequence, a held  *)
(* chunk a one-element sequence.                                           *)

NoChunks == [ihdr_chunk |-> << >>, srgb_chunk |-> << >>, idat_chunks |-> << >>, other_chunks |-> << >>]

\* a classification that forgets to keep pHYs out of the other chunks
ClassifyChunkKeepsPhys(acc, c) ==
    IF c.type = IHDR THEN [acc EXCEPT !.ihdr_chunk = << c >>]
    ELSE IF c.type = sRGB THEN [acc EXCEPT !.srgb_chunk = << c >>]
    ELSE IF c.type = IDAT THEN [acc EXCEPT !.idat_chunks = Append(@, c)]
    ELSE IF c.type \notin { IEND, eXIf, sBIT } THEN [acc EXCEPT !.other_chunks = Append(@, c)]
    ELSE acc

\* one round of the loop "for chunk_type, chunk_data in chunks"
ClassifyChunk(acc, c) ==
    IF c.type = IHDR THEN [acc EXCEPT !.ihdr_chunk = << c >>]
    ELSE IF c.type = sRGB THEN [acc EXCEPT !.srgb_chunk = << c >>]
    ELSE IF c.type = IDAT THEN [acc EXCEPT !.idat_chunks = Append(@, c)]
    ELSE IF c.type \notin { IEND, eXIf, pHYs, sBIT } THEN [acc EXCEPT !.other_chunks = Append(@, c)]
    ELSE acc

RECURSIVE ClassifyFrom(_, _, _)
ClassifyFrom(chunks, k, acc) ==
    IF k > Len(chunks) THEN acc
    ELSE ClassifyFrom(chunks, k + 1, ClassifyChunk(acc, chunks[k]))

\* the four slots after the loop
Classify(chunks) == ClassifyFrom(chunks, 1, NoChunks)

\* step 1 of the conversion: the base PNG
Preassemble(cls) ==
    PNG_SIGNATURE
        \o (IF cls.ihdr_chunk # << >>
            THEN create_png_chunk(cls.ihdr_chunk[1].type, cls.ihdr_chunk[1].data)
            ELSE << >>)
        \o (IF cls.srgb_chunk # << >>
            THEN create_png_chunk(cls.srgb_chunk[1].type, cls.srgb_chunk[1].data)
            ELSE create_png_chunk(sRGB, << 0 >>))
        \o EncodeAll(cls.other_chunks)
        \o EncodeAll(cls.idat_chunks)
        \o create_png_chunk(IEND, << >>)

-----------------------------------------------------------------------------
(* convert_android_to_ios: the insertion of pHYs and sBIT into the file    *)
(* that exiftool wrote (step 3).                                          *)

\* struct.pack('>IIB', 5669, 5669, 1)
phys_data == PackU32(5669) \o PackU32(5669) \o << 1 >>

\* struct.pack('BBB', 8, 8, 8)
sbit_data == << 8, 8, 8 >>

HasChunkType(chunks, t) == \E k \in 1..Len(chunks) : chunks[k].type = t

\* a step 3 that anchors both chunks on eXIf
RepositionBothAfterExif(tool_output) ==
    LET temp_chunks == extract_chunks_from_png(tool_output).chunks
        with_phys   == IF ~HasChunkType(temp_chunks, pHYs)
                       THEN insert_chunk_after(tool_output, eXIf, pHYs, phys_data)
                       ELSE tool_output
    IN  IF ~HasChunkType(temp_chunks, sBIT)
        THEN insert_chunk_after(with_phys, eXIf, sBIT, sbit_data)
        ELSE with_phys

\* a step 3 that does not look for a pHYs or sBIT chunk already in the file
RepositionUnchecked(tool_output) ==
    insert_chunk_after(insert_chunk_after(tool_output, eXIf, pHYs, phys_data),
                       pHYs, sBIT, sbit_data)

\* png_data after step 3, from the bytes of temp_file1
Reposition(tool_output) ==
    LET temp_chunks == extract_chunks_from_png(tool_output).chunks
        has_phys    == HasChunkType(temp_chunks, pHYs)
        has_sbit    == HasChunkType(temp_chunks, sBIT)
        with_phys   == IF ~has_phys
                       THEN insert_chunk_after(tool_output, eXIf, pHYs, phys_data)
                       ELSE tool_output
    IN  IF ~has_sbit
        THEN insert_chunk_after(with_phys, pHYs, sBIT, sbit_data)
        ELSE with_phys

-----------------------------------------------------------------------------
(* Text: str values are sequences of character codes                       *)

S_png      == << 46, 112, 110, 103 >>                                \* ".png"
S_jpg      == << 46, 106, 112, 103 >>                                \* ".jpg"
S_jpeg     == << 46, 106, 112, 101, 103 >>                           \* ".jpeg"
S_PNG      == << 46, 80, 78, 71 >>                                   \* ".PNG"
S_JPG      == << 46, 74, 80, 71 >>                                   \* ".JPG"
S_JPEG     == << 46, 74, 80, 69, 71 >>                               \* ".JPEG"
S_ios_png  == << 95, 105, 111, 115 >> \o S_png                       \* "_ios.png"
S_temp1    == << 46, 116, 101, 109, 112, 49 >>                       \* ".temp1"
S_temp_png == << 46, 116, 101, 109, 112, 95, 112, 110, 103 >>        \* ".temp_png"
S_ios_output == << 105, 111, 115, 95, 111, 117, 116, 112, 117, 116 >> \* "ios_output"
S_slash    == << 47 >>                                               \* "/"
S_dot      == << 46 >>                                               \* "."
S_under    == << 95 >>                                               \* "_"

\* the last index of character ch in s, 0 when it has none
LastIndexOf(s, ch) ==
    LET at == { k \in 1..Len(s) : s[k] = ch }
    IN  IF at = { } THEN 0 ELSE CHOOSE k \in at : \A j \in at : j <= k

\* os.path.basename
basename(p) == SubSeq(p, LastIndexOf(p, S_slash[1]) + 1, Len(p))

\* os.path.splitext: <<root, ext>>, split at the last dot of the last
\* component unless that component has only dots before it
splitext(p) ==
    LET sep == LastIndexOf(p, S_slash[1])
        dot == LastIndexOf(p, S_dot[1])
    IN  IF dot > sep /\ \E k \in (sep + 1)..(dot - 1) : p[k] # S_dot[1]
        THEN << SubSeq(p, 1, dot - 1), SubSeq(p, dot, Len(p)) >>
        ELSE << p, << >> >>

\* os.path.join of a directory and a relative name
join(a, b) == a \o S_slash \o b

\* str.lower
lower(s) == [k \in 1..Len(s) |-> IF s[k] \in 65..90 THEN s[k] + 32 ELSE s[k]]

\* str(n) for n >= 0
RECURSIVE str(_)
str(n) == IF n < 10 THEN << 48 + n >> ELSE str(n \div 10) \o << 48 + (n % 10) >>

\* a < b for str values: by code point, a proper prefix first
StrLess(a, b) ==
    \E k \in 1..(Len(b)) :
        /\ k <= Len(a) + 1
        /\ \A j \in 1..(k - 1) : a[j] = b[j]
        /\ (k = Len(a) + 1 \/ a[k] < b[k])

\* sorted(S) for a set of str values
RECURSIVE sorted(_)
sorted(S) ==
    IF S = { } THEN << >>
    ELSE LET least == CHOOSE a \in S : \A b \in S \ { a } : StrLess(a, b)
         IN  << least >> \o sorted(S \ { least })

-----------------------------------------------------------------------------
(* The file system                                                        *)

\* open(path, 'wb').write(bytes), Image.save
WriteFile(fsys, path, bytes) ==
    [q \in (DOMAIN fsys) \cup { path } |-> IF q = path THEN bytes ELSE fsys[q]]

\* if os.path.exists(path): os.remove(path)
RemoveFile(fsys, path) == [q \in (DOMAIN fsys) \ { path } |-> fsys[q]]

\* os.path.isfile / os.path.isdir
isfile(path) == path \in DOMAIN files
isdir(path) == path \in dirs

\* whether path is below directory, as os.walk finds it
IsUnder(path, directory) ==
    /\ Len(path) > Len(directory) + 1
    /\ SubSeq(path, 1, Len(directory) + 1) = directory \o S_slash

image_extensions == { S_png, S_jpg, S_jpeg, S_PNG, S_JPG, S_JPEG }

\* get_image_files(directory)
get_image_files(directory) ==
    sorted({ p \in DOMAIN files :
               IsUnder(p, directory) /\ splitext(basename(p))[2] \in image_extensions })

-----------------------------------------------------------------------------
(* The collaborators: PIL and exiftool.  Neither is code of the script;    *)
(* each is modelled by what the script relies on.                          *)

IsPngFile(bytes) == Slice(bytes, 0, 8) = PNG_SIGNATURE
IsJpegFile(bytes) == Slice(bytes, 0, 2) = << 255, 216 >>

\* Image.open(path) identifies the file, or raises UnidentifiedImageError
ImageOpens(bytes) == IsPngFile(bytes) \/ IsJpegFile(bytes)

\* img.save(temp_png, 'PNG') of a decoded non-PNG image: header, pixels, end
ImageSavePng(bytes) ==
    PNG_SIGNATURE
        \o create_png_chunk(IHDR, << 0, 0, 0, 1, 0, 0, 0, 1, 8, 2, 0, 0, 0 >>)
        \o create_png_chunk(IDAT, << 120, 156 >> \o SliceFrom(bytes, 2))
        \o create_png_chunk(IEND, << >>)

\* a chunk walk that reads every record up to and including IEND
RECURSIVE DecodeFrom(_, _)
DecodeFrom(bytes, i) ==
    IF i + 12 > Len(bytes) THEN << >>
    ELSE LET size == UnpackU32(Slice(bytes, i, i + 4))
             c    == Chunk(Slice(bytes, i + 4, i + 8), Slice(bytes, i + 8, i + 8 + size))
         IN  IF c.type = IEND THEN << c >>
             ELSE << c >> \o DecodeFrom(bytes, i + 12 + size)

DecodeAll(bytes) == IF IsPngFile(bytes) THEN DecodeFrom(bytes, 8) ELSE << >>

\* chunk c put after the k-th chunk, and never after the last one
PutAfter(chunks, k, c) ==
    LET at == Min(k, Len(chunks) - 1)
    IN  SubSeq(chunks, 1, at) \o << c >> \o SubSeq(chunks, at + 1, Len(chunks))

\* the EXIF block exiftool writes for the tags of the first run, and the one
\* it writes when the second run sets the numeric orientation
ExifData == << 77, 77, 0, 42 >>
ExifDataFixed == << 77, 77, 0, 42, 1 >>

\* the chunk of type t that exiftool copies from the original file: the
\* last one there, if the original is a PNG that has one
CopiedChunk(original, t) ==
    LET have == SelectSeq(DecodeAll(original), LAMBDA c : c.type = t)
    IN  IF have = << >> THEN << >> ELSE << have[Len(have)] >>

\* the file after "exiftool -overwrite_original -tagsFromFile original
\* -all:all -unsafe -ImageDescription=... temp_file1" exits 0
ExiftoolWrite(tool, bytes, original) ==
    LET base      == DecodeAll(bytes)
        with_exif == IF tool.exifAt > 0
                     THEN PutAfter(base, tool.exifAt, Chunk(eXIf, ExifData))
                     ELSE base
        phys      == CopiedChunk(original, pHYs)
        with_phys == IF tool.physAt > 0 /\ phys # << >>
                     THEN PutAfter(with_exif, tool.physAt, phys[1])
                     ELSE with_exif
        sbit      == CopiedChunk(original, sBIT)
        with_sbit == IF tool.sbitAt > 0 /\ sbit # << >>
                     THEN PutAfter(with_phys, tool.sbitAt, sbit[1])
                     ELSE with_phys
    IN  PNG_SIGNATURE \o EncodeAll(with_sbit)

\* the file after "exiftool -Orientation=1 -n -overwrite_original
\* output_path" exits 0: the EXIF block is rewritten in place
ExiftoolFixOrientation(tool, bytes) ==
    LET chunks == DecodeAll(bytes)
    IN  PNG_SIGNATURE \o
        EncodeAll([k \in 1..Len(chunks) |->
                     IF chunks[k].type = eXIf THEN Chunk(eXIf, ExifDataFixed) ELSE chunks[k]])

-----------------------------------------------------------------------------
(* Inputs of the two pure functions: buffers made of a signature, up to    *)
(* MaxChunks chunks, the IEND chunk and up to MaxTrail bytes after it.     *)

\* the payload of a 1x1 8-bit RGB image header
IhdrData == << 0, 0, 0, 1, 0, 0, 0, 1, 8, 2, 0, 0, 0 >>

SeqsUpTo(S, n) == UNION { [1..k -> S] : k \in 0..n }

Zeros(k) == [i \in 1..k |-> 0]

IendChunk == Chunk(IEND, << >>)

PoolChunks == { Chunk(IHDR, IhdrData), Chunk(IDAT, << 120, 156 >>), Chunk(tEXt, << >>) }

\* a buffer and how it was made
Buffers ==
    { [chunks |-> cs \o << IendChunk >>,
       trail  |-> k,
       bytes  |-> PNG_SIGNATURE \o EncodeAll(cs \o << IendChunk >>) \o Zeros(k)] :
         cs \in SeqsUpTo(PoolChunks, MaxChunks), k \in 0..MaxTrail }

Anchors == { IHDR, IDAT, IEND, eXIf, tEXt }

NewChunks == { Chunk(pHYs, phys_data), Chunk(sBIT, sbit_data), Chunk(tEXt, << >>) }

NoInsertCall ==
    [state |-> "idle", made |-> [chunks |-> << >>, trail |-> 0, bytes |-> << >>],
     png_data |-> << >>, insert_after_chunk |-> << >>,
     new_chunk_type |-> << >>, new_chunk_data |-> << >>, result |-> << >>]

NoExtractCall ==
    [state |-> "idle", made |-> [chunks |-> << >>, trail |-> 0, bytes |-> << >>],
     data |-> << >>, raised |-> "none", chunks |-> << >>]

NoAssembleCall == [state |-> "idle", chunks |-> << >>, cls |-> NoChunks, png_data |-> << >>]

\* no conversion running: the locals of convert_android_to_ios, all unset
NoConv ==
    [input_path |-> << >>, original_input_path |-> << >>, output_path |-> << >>,
     temp_png |-> << >>, temp_file1 |-> << >>, cls |-> NoChunks, png_data |-> << >>,
     result |-> << >>, raised |-> "none"]

\* process_directory not running
NoBatch ==
    [image_files |-> << >>, output_dir |-> << >>, i |-> 1, used_filenames |-> << >>,
     success_count |-> 0, fail_count |-> 0, outputs |-> << >>]

NoTool == [installed |-> FALSE, exifAt |-> 0, physAt |-> 0, sbitAt |-> 0]

\* the script is not running (the pure functions are called on their own)
ScriptIdle ==
    /\ argv = << >>
    /\ pc = "idle"
    /\ exit_code = -1
    /\ files = << >>
    /\ dirs = { }
    /\ exiftool = NoTool
    /\ batch_mode = FALSE
    /\ batch = NoBatch
    /\ cpc = "idle"
    /\ conv = NoConv

PureIdle ==
    /\ insertCall = NoInsertCall
    /\ extractCall = NoExtractCall
    /\ assembleCall = NoAssembleCall

-----------------------------------------------------------------------------
(* insert_chunk_after applied to one drawn input                           *)

InitInsert ==
    /\ \E b \in Buffers, a \in Anchors, n \in NewChunks :
          insertCall = [NoInsertCall EXCEPT
                          !.state = "called", !.made = b, !.png_data = b.bytes,
                          !.insert_after_chunk = a,
                          !.new_chunk_type = n.type, !.new_chunk_data = n.data]
    /\ extractCall = NoExtractCall
    /\ assembleCall = NoAssembleCall
    /\ ScriptIdle

InsertChunkAfter ==
    /\ insertCall.state = "called"
    /\ insertCall' = [insertCall EXCEPT
                        !.state = "returned",
                        !.result = insert_chunk_after(insertCall.png_data,
                                                      insertCall.insert_after_chunk,
                                                      insertCall.new_chunk_type,
                                                      insertCall.new_chunk_data)]
    /\ UNCHANGED <<extractCall, assembleCall, progVars>>

NextInsert == InsertChunkAfter

SpecInsert == InitInsert /\ [][NextInsert]_vars

-----------------------------------------------------------------------------
(* extract_chunks_from_png applied to one drawn file                       *)

\* a file that does not start with the signature: its first byte is wrong
BadSignature(bytes) == [bytes EXCEPT ![1] = 0]

InitExtract ==
    /\ \E b \in Buffers, sig \in BOOLEAN :
          extractCall = [NoExtractCall EXCEPT
                           !.state = "called", !.made = b,
                           !.data = IF sig THEN b.bytes ELSE BadSignature(b.bytes)]
    /\ insertCall = NoInsertCall
    /\ assembleCall = NoAssembleCall
    /\ ScriptIdle

ExtractChunksFromPng ==
    /\ extractCall.state = "called"
    /\ LET r == extract_chunks_from_png(extractCall.data)
       IN  extractCall' = [extractCall EXCEPT
                             !.state = "returned", !.raised = r.raised, !.chunks = r.chunks]
    /\ UNCHANGED <<insertCall, assembleCall, progVars>>

NextExtract == ExtractChunksFromPng

SpecExtract == InitExtract /\ [][NextExtract]_vars

-----------------------------------------------------------------------------
(* The classification and the assembly applied to one drawn chunk list     *)

\* a pixel density and a bit depth other than the defaults of the conversion
OrigPhysData == PackU32(2835) \o PackU32(2835) \o << 1 >>
OrigSbitData == << 5, 6, 5 >>

DecodedPool ==
    { Chunk(IHDR, IhdrData), Chunk(IHDR, << 0 >>), Chunk(sRGB, << 1 >>),
      Chunk(IDAT, << 120, 156 >>), Chunk(IDAT, << 99 >>),
      Chunk(tEXt, << >>), Chunk(tIME, << 7 >>),
      Chunk(eXIf, ExifData), Chunk(pHYs, OrigPhysData), Chunk(sBIT, OrigSbitData),
      IendChunk }

InitAssemble ==
    /\ \E cs \in SeqsUpTo(DecodedPool, MaxInputChunks) :
          assembleCall = [NoAssembleCall EXCEPT !.state = "decoded", !.chunks = cs]
    /\ insertCall = NoInsertCall
    /\ extractCall = NoExtractCall
    /\ ScriptIdle

ClassifyDecoded ==
    /\ assembleCall.state = "decoded"
    /\ assembleCall' = [assembleCall EXCEPT
                          !.state = "classified", !.cls = Classify(assembleCall.chunks)]
    /\ UNCHANGED <<insertCall, extractCall, progVars>>

PreassembleClassified ==
    /\ assembleCall.state = "classified"
    /\ assembleCall' = [assembleCall EXCEPT
                          !.state = "assembled", !.png_data = Preassemble(assembleCall.cls)]
    /\ UNCHANGED <<insertCall, extractCall, progVars>>

NextAssemble == ClassifyDecoded \/ PreassembleClassified

SpecAssemble == InitAssemble /\ [][NextAssemble]_vars

-----------------------------------------------------------------------------
(* One run of the script: the file system, the arguments and the exiftool  *)
(* it starts with                                                          *)

P_d     == << 100 >>                                     \* "d"
P_x_png == << 100, 47, 120 >> \o S_png                   \* "d/x.png"
P_out   == << 111 >> \o S_png                            \* "o.png"
P_odir  == << 111 >>                                     \* "o"
P_q     == << 113 >>                                     \* "q", which does not exist

JpegBytes == << 255, 216, 255, 224, 9, 255, 217 >>
TextBytes == << 104, 105 >>

\* the chunks a PNG input may hold between its header and its pixels
OptionalChunks == << Chunk(pHYs, OrigPhysData), Chunk(sBIT, OrigSbitData), Chunk(tEXt, << >>) >>

Picked(mask) ==
    (IF 1 \in mask THEN << OptionalChunks[1] >> ELSE << >>)
        \o (IF 2 \in mask THEN << OptionalChunks[2] >> ELSE << >>)
        \o (IF 3 \in mask THEN << OptionalChunks[3] >> ELSE << >>)

PngInput(mask) ==
    PNG_SIGNATURE
        \o EncodeAll(<< Chunk(IHDR, IhdrData) >> \o Picked(mask)
                        \o << Chunk(IDAT, << 120, 156 >>), IendChunk >>)

SingleInputs == { PngInput(mask) : mask \in SUBSET (1..3) } \cup { JpegBytes, TextBytes }

\* the exiftools that differ on this original: one that is not installed, and
\* the installed ones by where they put eXIf and the chunks they copy
ToolsFor(original) ==
    { NoTool } \cup
    [installed : { TRUE },
     exifAt    : 0..MaxPos,
     physAt    : IF CopiedChunk(original, pHYs) # << >> THEN 0..MaxPos ELSE { 0 },
     sbitAt    : IF CopiedChunk(original, sBIT) # << >> THEN 0..MaxPos ELSE { 0 }]

\* the files a batch directory may hold
BatchPool ==
    { << 100, 47, 97, 47, 120 >> \o S_png,               \* "d/a/x.png"
      << 100, 47, 98, 47, 120 >> \o S_png,               \* "d/b/x.png"
      << 100, 47, 99, 47, 120, 95, 49 >> \o S_png,       \* "d/c/x_1.png"
      << 100, 47, 120 >> \o S_JPG,                       \* "d/x.JPG"
      << 100, 47, 98, 47, 121 >> \o S_png,               \* "d/b/y.png"
      << 100, 47, 110, 46, 116, 120, 116 >> }            \* "d/n.txt"

BatchContent(path) ==
    IF splitext(path)[2] = S_JPG THEN JpegBytes
    ELSE IF basename(path) = << 121 >> \o S_png THEN TextBytes
    ELSE IF splitext(path)[2] = S_png THEN PngInput({ })
    ELSE TextBytes

BatchTools == { NoTool, [installed |-> TRUE, exifAt |-> 2, physAt |-> 0, sbitAt |-> 0] }

InitScript ==
    /\ pc = "main"
    /\ exit_code = -1
    /\ batch_mode = FALSE
    /\ batch = NoBatch
    /\ cpc = "idle"
    /\ conv = NoConv
    /\ \/ \* no argument, or a path that does not exist
          /\ argv \in { << >>, << P_q >>, << P_q, P_out >> }
          /\ files = WriteFile(<< >>, P_x_png, PngInput({ }))
          /\ dirs = { P_d }
          /\ exiftool \in BatchTools
       \/ \* one file
          \E input \in SingleInputs :
             /\ argv \in { << P_x_png >>, << P_x_png, P_out >> }
             /\ files = WriteFile(<< >>, P_x_png, input)
             /\ dirs = { P_d }
             /\ exiftool \in ToolsFor(input)
       \/ \* a directory
          \E held \in { S \in SUBSET BatchPool : Cardinality(S) <= MaxFiles } :
             /\ argv \in { << P_d >>, << P_d, P_odir >> }
             /\ files = [path \in held |-> BatchContent(path)]
             /\ dirs = { P_d }
             /\ exiftool \in BatchTools

Init == PureIdle /\ InitScript

-----------------------------------------------------------------------------
(* convert_android_to_ios, step by step.  The date that is read and handed *)
(* to exiftool, the modification time that is restored and what is printed *)
(* change no file and no local that a later step reads; they are left out. *)

\* the conversion starts: the default output path, Image.open, the check of
\* the signature and the re-encoding of a file that is not a PNG
ConvOpen ==
    /\ cpc = "Open"
    /\ LET out  == IF conv.output_path = << >>
                   THEN splitext(conv.input_path)[1] \o S_ios_png
                   ELSE conv.output_path
           held == files[conv.input_path]
           c    == [conv EXCEPT !.output_path = out, !.original_input_path = conv.input_path]
       IN  \/ \* Image.open raises
              /\ ~ImageOpens(held)
              /\ conv' = [c EXCEPT !.raised = "UnidentifiedImageError"]
              /\ cpc' = "raised"
              /\ UNCHANGED files
           \/ \* is_png
              /\ ImageOpens(held)
              /\ IsPngFile(held)
              /\ conv' = c
              /\ cpc' = "Classify"
              /\ UNCHANGED files
           \/ \* not a PNG: img.save(temp_png, 'PNG'); input_path = temp_png
              /\ ImageOpens(held)
              /\ ~IsPngFile(held)
              /\ files' = WriteFile(files, out \o S_temp_png, ImageSavePng(held))
              /\ conv' = [c EXCEPT !.temp_png = out \o S_temp_png, !.input_path = out \o S_temp_png]
              /\ cpc' = "Classify"
    /\ UNCHANGED <<pureVars, argv, pc, exit_code, dirs, exiftool, batch_mode, batch>>

\* Classify: extract_chunks_from_png(input_path) and the loop over the chunks
ConvClassify ==
    /\ cpc = "Classify"
    /\ LET r == extract_chunks_from_png(files[conv.input_path])
       IN  /\ r.raised = "none"
           /\ conv' = [conv EXCEPT !.cls = Classify(r.chunks)]
    /\ cpc' = "Preassemble"
    /\ UNCHANGED <<pureVars, argv, pc, exit_code, files, dirs, exiftool, batch_mode, batch>>

\* Preassemble: step 1, the base PNG
ConvPreassemble ==
    /\ cpc = "Preassemble"
    /\ conv' = [conv EXCEPT !.png_data = Preassemble(conv.cls)]
    /\ cpc' = "Externalize"
    /\ UNCHANGED <<pureVars, argv, pc, exit_code, files, dirs, exiftool, batch_mode, batch>>

\* a failure path that moves the temporary file to the output path
AfterToolFailureKeepsOutput(fsys, c) ==
    WriteFile(RemoveFile(fsys, c.temp_file1), c.output_path, c.png_data)

\* the files after exiftool failed (it exited non-zero, or there is none):
\* if os.path.exists(temp_file1): os.remove(temp_file1)
AfterToolFailure(fsys, c) == RemoveFile(fsys, c.temp_file1)

\* Externalize: step 2, temp_file1 is written and exiftool runs on it
ConvExternalize ==
    /\ cpc = "Externalize"
    /\ LET c       == [conv EXCEPT !.temp_file1 = conv.output_path \o S_temp1]
           written == WriteFile(files, c.temp_file1, c.png_data)
       IN  \/ \* FileNotFoundError: return None
              /\ ~exiftool.installed
              /\ files' = AfterToolFailure(written, c)
              /\ conv' = [c EXCEPT !.result = << >>]
              /\ cpc' = "returned"
           \/ \* CalledProcessError: return None
              /\ exiftool.installed
              /\ files' = AfterToolFailure(written, c)
              /\ conv' = [c EXCEPT !.result = << >>]
              /\ cpc' = "returned"
           \/ \* exiftool exits 0 and has rewritten temp_file1
              /\ exiftool.installed
              /\ files' = WriteFile(written, c.temp_file1,
                                    ExiftoolWrite(exiftool, c.png_data,
                                                  files[c.original_input_path]))
              /\ conv' = c
              /\ cpc' = "Reposition"
    /\ UNCHANGED <<pureVars, argv, pc, exit_code, dirs, exiftool, batch_mode, batch>>

\* Reposition: step 3, pHYs and sBIT are inserted into what exiftool wrote
ConvReposition ==
    /\ cpc = "Reposition"
    /\ conv' = [conv EXCEPT !.png_data = Reposition(files[conv.temp_file1])]
    /\ cpc' = "Finalize"
    /\ UNCHANGED <<pureVars, argv, pc, exit_code, files, dirs, exiftool, batch_mode, batch>>

\* the files once the output is written and the temporaries are removed
AfterCleanup(fsys, c) ==
    LET written == WriteFile(fsys, c.output_path, c.png_data)
        no_temp == RemoveFile(written, c.temp_file1)
    IN  IF c.temp_png # << >> THEN RemoveFile(no_temp, c.temp_png) ELSE no_temp

\* Finalize: the output file, the cleanup, the second exiftool run that sets
\* the orientation (its failure is swallowed), return output_path
ConvFinalize ==
    /\ cpc = "Finalize"
    /\ \/ \* the second exiftool run fails: the output stays as written
          files' = AfterCleanup(files, conv)
       \/ \* the second exiftool run rewrites the output
          files' = WriteFile(AfterCleanup(files, conv), conv.output_path,
                             ExiftoolFixOrientation(exiftool, conv.png_data))
    /\ conv' = [conv EXCEPT !.result = conv.output_path]
    /\ cpc' = "returned"
    /\ UNCHANGED <<pureVars, argv, pc, exit_code, dirs, exiftool, batch_mode, batch>>

-----------------------------------------------------------------------------
(* process_directory                                                       *)

\* the output file name of one image file and the updated used_filenames
AssignOutputName(used_filenames, image_file) ==
    LET base_name == basename(image_file)
        base      == splitext(base_name)[1]
        ext       == splitext(base_name)[2]
        first     == IF lower(ext) \in { S_jpg, S_jpeg } THEN base \o S_png ELSE base_name
    IN  IF first \in DOMAIN used_filenames
        THEN LET n == used_filenames[first] + 1
             IN  [used |-> [used_filenames EXCEPT ![first] = n],
                  output_filename |->
                      splitext(first)[1] \o S_under \o str(n) \o splitext(first)[2]]
        ELSE [used |-> [q \in (DOMAIN used_filenames) \cup { first } |->
                          IF q = first THEN 0 ELSE used_filenames[q]],
              output_filename |-> first]

\* process_directory up to its loop
ProcessDirectoryStart ==
    /\ pc = "process_directory"
    /\ isdir(argv[1])
    /\ LET image_files == get_image_files(argv[1])
           output_dir  == IF Len(argv) > 1 THEN argv[2] ELSE join(argv[1], S_ios_output)
       IN  \/ \* no image file: return
              /\ image_files = << >>
              /\ pc' = "exit"
              /\ exit_code' = 0
              /\ UNCHANGED <<dirs, batch_mode, batch>>
           \/ /\ image_files # << >>
              /\ dirs' = dirs \cup { output_dir }
              /\ batch_mode' = TRUE
              /\ batch' = [NoBatch EXCEPT !.image_files = image_files, !.output_dir = output_dir]
              /\ pc' = "batch_loop"
              /\ UNCHANGED exit_code
    /\ UNCHANGED <<pureVars, argv, files, exiftool, cpc, conv>>

\* one round of the loop, up to the call of convert_android_to_ios
BatchItem ==
    /\ pc = "batch_loop"
    /\ batch.i <= Len(batch.image_files)
    /\ LET image_file == batch.image_files[batch.i]
           named      == AssignOutputName(batch.used_filenames, image_file)
           output_file == join(batch.output_dir, named.output_filename)
       IN  /\ batch' = [batch EXCEPT !.used_filenames = named.used,
                                     !.outputs = Append(@, output_file)]
           /\ conv' = [NoConv EXCEPT !.input_path = image_file, !.output_path = output_file]
    /\ cpc' = "Open"
    /\ pc' = "batch_convert"
    /\ UNCHANGED <<pureVars, argv, exit_code, files, dirs, exiftool, batch_mode>>

\* the rest of the round: the result is counted, an exception is caught
BatchItemDone ==
    /\ pc = "batch_convert"
    /\ \/ /\ cpc = "returned"
          /\ conv.result # << >>
          /\ batch' = [batch EXCEPT !.success_count = @ + 1, !.i = @ + 1]
       \/ /\ cpc = "returned"
          /\ conv.result = << >>
          /\ batch' = [batch EXCEPT !.fail_count = @ + 1, !.i = @ + 1]
       \/ /\ cpc = "raised"
          /\ batch' = [batch EXCEPT !.fail_count = @ + 1, !.i = @ + 1]
    /\ cpc' = "idle"
    /\ conv' = NoConv
    /\ pc' = "batch_loop"
    /\ UNCHANGED <<pureVars, argv, exit_code, files, dirs, exiftool, batch_mode>>

\* after the loop: the flag is cleared, the tally is printed, main ends
BatchEnd ==
    /\ pc = "batch_loop"
    /\ batch.i > Len(batch.image_files)
    /\ batch_mode' = FALSE
    /\ pc' = "exit"
    /\ exit_code' = 0
    /\ UNCHANGED <<pureVars, argv, files, dirs, exiftool, batch, cpc, conv>>

-----------------------------------------------------------------------------
(* The command line                                                        *)

Main ==
    /\ pc = "main"
    /\ \/ \* len(sys.argv) < 2: usage, sys.exit(1)
          /\ Len(argv) < 1
          /\ pc' = "exit"
          /\ exit_code' = 1
          /\ UNCHANGED <<cpc, conv>>
       \/ /\ Len(argv) >= 1
          /\ isdir(argv[1])
          /\ pc' = "process_directory"
          /\ UNCHANGED <<exit_code, cpc, conv>>
       \/ /\ Len(argv) >= 1
          /\ ~isdir(argv[1])
          /\ isfile(argv[1])
          /\ pc' = "single"
          /\ cpc' = "Open"
          /\ conv' = [NoConv EXCEPT !.input_path = argv[1],
                                    !.output_path = IF Len(argv) > 1 THEN argv[2] ELSE << >>]
          /\ UNCHANGED exit_code
       \/ \* neither a file nor a directory: sys.exit(1)
          /\ Len(argv) >= 1
          /\ ~isdir(argv[1])
          /\ ~isfile(argv[1])
          /\ pc' = "exit"
          /\ exit_code' = 1
          /\ UNCHANGED <<cpc, conv>>
    /\ UNCHANGED <<pureVars, argv, files, dirs, exiftool, batch_mode, batch>>

\* the single conversion returned (a path or None): the script ends
SingleDone ==
    /\ pc = "single"
    /\ cpc = "returned"
    /\ pc' = "exit"
    /\ exit_code' = 0
    /\ UNCHANGED <<pureVars, argv, files, dirs, exiftool, batch_mode, batch, cpc, conv>>

\* the single conversion raised: nothing catches it, the interpreter prints
\* the traceback and exits with status 1
SingleUncaught ==
    /\ pc = "single"
    /\ cpc = "raised"
    /\ pc' = "exit"
    /\ exit_code' = 1
    /\ UNCHANGED <<pureVars, argv, files, dirs, exiftool, batch_mode, batch, cpc, conv>>

Next ==
    \/ Main
    \/ SingleDone
    \/ SingleUncaught
    \/ ProcessDirectoryStart
    \/ BatchItem
    \/ BatchItemDone
    \/ BatchEnd
    \/ ConvOpen
    \/ ConvClassify
    \/ ConvPreassemble
    \/ ConvExternalize
    \/ ConvReposition
    \/ ConvFinalize

Spec == Init /\ [][Next]_vars

-----------------------------------------------------------------------------
(* Properties of insert_chunk_after (under SpecInsert)                     *)

\* what the call is about, read off the way the buffer was made
InsMade      == insertCall.made
InsNewChunk  == create_png_chunk(insertCall.new_chunk_type, insertCall.new_chunk_data)
InsAnchorAt  == { k \in 1..Len(InsMade.chunks) : InsMade.chunks[k].type = insertCall.insert_after_chunk }
InsHasAnchor == InsAnchorAt # { }
InsFirstAnchor == CHOOSE k \in InsAnchorAt : \A j \in InsAnchorAt : k <= j
\* offset just after the framed record of the k-th chunk
RecordEnd(made, k) == Len(PNG_SIGNATURE) + Len(EncodeAll(SubSeq(made.chunks, 1, k)))
\* offset at which the IEND record starts
IendStart(made) == RecordEnd(made, Len(made.chunks) - 1)
InsertedAt(p) ==
    insertCall.result =
        Slice(insertCall.png_data, 0, p) \o InsNewChunk \o SliceFrom(insertCall.png_data, p)

\* C2: whenever the buffer contains a chunk of the anchor type, the result is
\* the buffer with the encoded new chunk spliced in immediately after the
\* framed record of the first anchor chunk: the chunk is inserted there and
\* nowhere else, and every byte of the buffer is kept in order.
C2_InsertedAfterAnchor ==
    (insertCall.state = "returned" /\ InsHasAnchor)
        => InsertedAt(RecordEnd(InsMade, InsFirstAnchor))

\* C3, as stated: whenever the buffer contains no chunk of the anchor type,
\* the encoded new chunk is spliced in immediately before the IEND record,
\* also when bytes follow IEND.
C3_InsertedBeforeIend ==
    (insertCall.state = "returned" /\ ~InsHasAnchor)
        => InsertedAt(IendStart(InsMade))

\* C3, amended: whenever the buffer contains no chunk of the anchor type and
\* the IEND record is its last 12 bytes (nothing follows IEND), the encoded
\* new chunk is spliced in immediately before the IEND record.
C3_InsertedBeforeFinalIend ==
    (insertCall.state = "returned" /\ ~InsHasAnchor /\ InsMade.trail = 0)
        => InsertedAt(IendStart(InsMade))

\* an anchor-less call on a buffer that ends with IEND and holds other chunks
C3_Witness ==
    /\ insertCall.state = "returned"
    /\ ~InsHasAnchor
    /\ InsMade.trail = 0
    /\ Len(InsMade.chunks) = MaxChunks + 1
    /\ InsertedAt(IendStart(InsMade))

-----------------------------------------------------------------------------
(* Properties of extract_chunks_from_png (under SpecExtract)               *)

ExtSignatureOk == Slice(extractCall.data, 0, 8) = PNG_SIGNATURE

\* C5: a buffer with the signature and a well-formed chunk stream yields all
\* its chunks in file order up to and including IEND, whether or not bytes
\* follow IEND; a buffer without the signature fails with a format error.
C5_ExtractsThroughIend ==
    extractCall.state = "returned" =>
        IF ExtSignatureOk
        THEN /\ extractCall.raised = "none"
             /\ extractCall.chunks = extractCall.made.chunks
        ELSE extractCall.raised = "ValueError"

-----------------------------------------------------------------------------
(* Properties of the classification and assembly (under SpecAssemble)      *)

OfType(chunks, t) == SelectSeq(chunks, LAMBDA c : c.type = t)
\* the last chunk of a type, as a sequence of at most one chunk
LastOfType(chunks, t) ==
    LET s == OfType(chunks, t) IN IF s = << >> THEN << >> ELSE << s[Len(s)] >>
IsOther(c) == c.type \notin { IHDR, sRGB, IDAT, IEND, eXIf, pHYs, sBIT }

\* the chunk list the base PNG is to hold, read off the decoded list
BasePngChunks(chunks) ==
    LastOfType(chunks, IHDR)
        \o (IF OfType(chunks, sRGB) = << >> THEN << Chunk(sRGB, << 0 >>) >>
            ELSE LastOfType(chunks, sRGB))
        \o SelectSeq(chunks, IsOther)
        \o OfType(chunks, IDAT)
        \o << IendChunk >>

\* C6: the base PNG is the signature, the input's IHDR chunk if it has one
\* (the last one, should it have several), exactly one sRGB chunk (the input's,
\* or payload 0x00), the other chunks in their original order, the IDAT
\* chunks in their original order, and one IEND chunk last; it holds no eXIf,
\* pHYs or sBIT chunk.
C6_BasePngLayout ==
    assembleCall.state = "assembled" =>
        /\ assembleCall.png_data = PNG_SIGNATURE \o EncodeAll(BasePngChunks(assembleCall.chunks))
        /\ \A c \in { BasePngChunks(assembleCall.chunks)[k] :
                        k \in 1..Len(BasePngChunks(assembleCall.chunks)) } :
              c.type \notin { eXIf, pHYs, sBIT }
        /\ Len(OfType(BasePngChunks(assembleCall.chunks), sRGB)) = 1
        /\ Len(OfType(BasePngChunks(assembleCall.chunks), IEND)) = 1

\* a base PNG made from a list that holds managed chunks, two other chunks and
\* no header
C6_Witness ==
    /\ assembleCall.state = "assembled"
    /\ OfType(assembleCall.chunks, pHYs) # << >>
    /\ Len(SelectSeq(assembleCall.chunks, IsOther)) = MaxInputChunks - 1
    /\ OfType(assembleCall.chunks, IHDR) = << >>
    /\ assembleCall.png_data =
          PNG_SIGNATURE \o create_png_chunk(sRGB, << 0 >>)
              \o EncodeAll(SelectSeq(assembleCall.chunks, IsOther))
              \o create_png_chunk(IEND, << >>)

-----------------------------------------------------------------------------
(* Properties of one conversion (under Spec)                               *)

\* In the state before Finalize, temp_file1 still holds what exiftool wrote
\* and png_data is the buffer that Finalize writes to the output path.
ToolChunks  == DecodeAll(files[conv.temp_file1])
FinalChunks == DecodeAll(conv.png_data)
InputChunks == DecodeAll(files[conv.original_input_path])
Types(chunks) == [k \in 1..Len(chunks) |-> chunks[k].type]
\* the index of the first chunk of type t, 0 when there is none
FirstIndex(chunks, t) ==
    LET at == { k \in 1..Len(chunks) : chunks[k].type = t }
    IN  IF at = { } THEN 0 ELSE CHOOSE k \in at : \A j \in at : k <= j

\* the tool's output holds eXIf before its first IDAT
ExifBeforePixels ==
    /\ FirstIndex(ToolChunks, eXIf) > 0
    /\ FirstIndex(ToolChunks, IDAT) > 0 => FirstIndex(ToolChunks, eXIf) < FirstIndex(ToolChunks, IDAT)

\* the final buffer is a well-formed stream with eXIf, pHYs, sBIT in a row
\* before every IDAT and before IEND
IosLayout ==
    LET e == FirstIndex(FinalChunks, eXIf)
    IN  /\ conv.png_data = PNG_SIGNATURE \o EncodeAll(FinalChunks)
        /\ e > 0
        /\ e + 2 <= Len(FinalChunks)
        /\ FinalChunks[e + 1].type = pHYs
        /\ FinalChunks[e + 2].type = sBIT
        /\ \A k \in 1..Len(FinalChunks) : FinalChunks[k].type \in { IDAT, IEND } => k > e + 2

\* the end-to-end case: only IHDR, IDAT, IEND in the input, eXIf put right
\* after sRGB
MinimalCase ==
    /\ Types(InputChunks) = << IHDR, IDAT, IEND >>
    /\ Types(ToolChunks) = << IHDR, sRGB, eXIf, IDAT, IEND >>
MinimalLayout == Types(FinalChunks) = << IHDR, sRGB, eXIf, pHYs, sBIT, IDAT, IEND >>

\* C1, as stated: whenever the tool's output holds eXIf before its first IDAT,
\* whatever pHYs and sBIT chunks it holds, the buffer that is written has pHYs
\* immediately after eXIf, sBIT immediately after pHYs, all before every IDAT
\* and IEND; for the minimal input the type sequence is exactly
\* IHDR, sRGB, eXIf, pHYs, sBIT, IDAT, IEND.
C1_IosLayoutAlways ==
    cpc = "Finalize" =>
        /\ ExifBeforePixels => IosLayout
        /\ MinimalCase => MinimalLayout

\* the pHYs and sBIT chunks of the tool's output, if any, already sit where
\* the conversion puts them
ToolChunksInPlace ==
    LET e == FirstIndex(ToolChunks, eXIf)
        p == HasChunkType(ToolChunks, pHYs)
        b == HasChunkType(ToolChunks, sBIT)
    IN  /\ p => ToolChunks[e + 1].type = pHYs
        /\ b => ToolChunks[IF p THEN e + 2 ELSE e + 1].type = sBIT

\* C1, amended: whenever the tool's output holds eXIf before its first IDAT
\* and holds no pHYs or sBIT chunk other than directly behind eXIf (pHYs
\* first), the buffer that is written has pHYs immediately after eXIf, sBIT
\* immediately after pHYs, all before every IDAT and IEND; for the minimal
\* input the type sequence is exactly IHDR, sRGB, eXIf, pHYs, sBIT, IDAT, IEND.
C1_IosLayoutWhenInPlace ==
    cpc = "Finalize" =>
        /\ (ExifBeforePixels /\ ToolChunksInPlace) => IosLayout
        /\ MinimalCase => MinimalLayout

\* the minimal end-to-end case, repositioned
C1_Witness ==
    /\ cpc = "Finalize"
    /\ MinimalCase
    /\ MinimalLayout
    /\ IosLayout

\* C4: after Reposition the buffer holds exactly one pHYs and one sBIT chunk;
\* a pHYs or sBIT chunk that the tool's output held is kept with its payload
\* and no second one is inserted; Reposition applied again changes nothing.
C4_RepositionIdempotent ==
    (/\ cpc = "Finalize"
     /\ Len(OfType(ToolChunks, pHYs)) <= 1
     /\ Len(OfType(ToolChunks, sBIT)) <= 1) =>
        /\ Len(OfType(FinalChunks, pHYs)) = 1
        /\ Len(OfType(FinalChunks, sBIT)) = 1
        /\ HasChunkType(ToolChunks, pHYs) => OfType(FinalChunks, pHYs) = OfType(ToolChunks, pHYs)
        /\ HasChunkType(ToolChunks, sBIT) => OfType(FinalChunks, sBIT) = OfType(ToolChunks, sBIT)
        /\ Reposition(conv.png_data) = conv.png_data

\* a tool output that kept the original's pHYs and no sBIT, repositioned
C4_Witness ==
    /\ cpc = "Finalize"
    /\ OfType(ToolChunks, pHYs) = << Chunk(pHYs, OrigPhysData) >>
    /\ ~HasChunkType(ToolChunks, sBIT)
    /\ OfType(FinalChunks, pHYs) = << Chunk(pHYs, OrigPhysData) >>
    /\ OfType(FinalChunks, sBIT) = << Chunk(sBIT, sbit_data) >>

\* C7: whenever the conversion has returned, on success or after exiftool
\* failed or was not found, neither <output>.temp1 nor <output>.temp_png
\* exists.
C7_NoTemporariesLeft ==
    cpc = "returned" =>
        /\ (conv.output_path \o S_temp1) \notin DOMAIN files
        /\ (conv.output_path \o S_temp_png) \notin DOMAIN files

\* the order of the steps of a conversion, and what it returns at each end
StepOrder ==
    cpc' # cpc =>
        /\ << cpc, cpc' >> \in
              { << "idle", "Open" >>, << "Open", "Classify" >>, << "Open", "raised" >>,
                << "Classify", "Preassemble" >>, << "Preassemble", "Externalize" >>,
                << "Externalize", "Reposition" >>, << "Externalize", "returned" >>,
                << "Reposition", "Finalize" >>, << "Finalize", "returned" >>,
                << "returned", "idle" >>, << "raised", "idle" >> }
        /\ (cpc = "Externalize" /\ cpc' = "returned") => conv'.result = << >>
        /\ (cpc = "Externalize" /\ cpc' = "Reposition") =>
              exiftool.installed /\ conv'.temp_file1 \in DOMAIN files'
        /\ (cpc = "Finalize") => conv'.result = conv'.output_path

\* a step changes the file at the destination only if it is Finalize, which
\* is reached only once exiftool has succeeded; so a conversion that ends in
\* None or in an error has not touched the destination
DestinationOnlyFinalized ==
    LET dest == conv'.output_path
    IN  (/\ dest \in DOMAIN files'
         /\ (dest \notin DOMAIN files \/ files[dest] # files'[dest])) => cpc = "Finalize"

\* C8, as stated: the steps run in order, the destination is written only by
\* Finalize, after exiftool succeeded, a failed conversion leaves the
\* destination as it was, and when the conversion returns the destination
\* path, the destination holds the repositioned buffer.
C8_DestinationHoldsBuffer ==
    [][/\ StepOrder
       /\ DestinationOnlyFinalized
       /\ (cpc = "Finalize" /\ cpc' = "returned") =>
             /\ conv'.output_path \in DOMAIN files'
             /\ files'[conv'.output_path] = conv'.png_data]_vars

\* C8, amended: as above, but when the conversion returns the destination
\* path, the destination holds the repositioned buffer or, if the closing
\* exiftool run that sets the orientation succeeded, that run's rewrite of it.
C8_DestinationHoldsBufferOrRewrite ==
    [][/\ StepOrder
       /\ DestinationOnlyFinalized
       /\ (cpc = "Finalize" /\ cpc' = "returned") =>
             /\ conv'.output_path \in DOMAIN files'
             /\ files'[conv'.output_path] \in
                   { conv'.png_data, ExiftoolFixOrientation(exiftool, conv'.png_data) }]_vars

\* a successful conversion whose output the closing exiftool run rewrote
C8_Witness ==
    /\ cpc = "returned"
    /\ conv.result = conv.output_path
    /\ conv.result # << >>
    /\ conv.output_path \in DOMAIN files
    /\ files[conv.output_path] # conv.png_data
    /\ files[conv.output_path] = ExiftoolFixOrientation(exiftool, conv.png_data)

-----------------------------------------------------------------------------
(* Properties of the batch run and of the command line (under Spec)        *)

\* C9: the output files assigned to the items of a batch are pairwise
\* distinct.
C9_DistinctOutputs ==
    \A i, j \in 1..Len(batch.outputs) : i # j => batch.outputs[i] # batch.outputs[j]

\* C10: the script exits with 1 exactly when there is no argument or the
\* path is neither a file nor a directory, and then has created no file; it
\* exits with 0 in every other run, and no conversion ends in an error that
\* nothing catches.
C10_ExitCodes ==
    pc = "exit" =>
        LET invalid == Len(argv) < 1 \/ (~isdir(argv[1]) /\ ~isfile(argv[1]))
        IN  /\ exit_code = (IF invalid THEN 1 ELSE 0)
            /\ invalid => DOMAIN files = { P_x_png }
            /\ cpc # "raised"

====
